---------------------------- MODULE Spec2Model ----------------------------
(***************************************************************************)
(* A model of the sudoku solver: the Board and its legality check, the     *)
(* sequential backtracker (main.go / board.go: Solve, solveInner) and the  *)
(* goroutine-parallel Solve (the third source file).                       *)
(*                                                                         *)
(* A Board is the Go slice of 81 ints, modelled as a function 0..80 -> Int.*)
(* The sequential solveInner is a step machine with an explicit call stack *)
(* (one step per loop iteration, call entry and return). The sequential    *)
(* Solve takes these steps one action at a time; a goroutine of the        *)
(* parallel Solve, which works on a private copy, takes them all at once.  *)
(***************************************************************************)
EXTENDS Integers, Sequences, FiniteSets, TLC

\* ------------------------------------------------------------------ sizes

\* make([]int, 81): the number of cells of a Board.
NumCells == 81

\* A row holds 9 cells (idx / 9, idx % 9, the loops i < 9).
RowLen == 9

\* (A variant that is wrong on purpose: the loop written i < 9, which never tries 9.)
LoopEndOffByOne == 10 - 1

\* for i := 1; i < 10; i++: the candidate loop ends when i reaches 10.
LoopEnd == 10

\* (A variant that is wrong on purpose: make(chan Board, 1).)
ResultChanCapOne == 2 - 1

\* make(chan Board, 9): the capacity of resultChan.
ResultChanCap == 9

\* The most cells blanked in the solved board to make an input.
MaxHoles == 4

Cell == 0 .. (NumCells - 1)

\* var blockOffsets = []int{0, 1, 2, 9, 10, 11, 18, 19, 20}
blockOffsets == <<0, 1, 2, 9, 10, 11, 18, 19, 20>>

\* A Go slice literal as a Board: element k of the literal is cell k - 1.
BoardOf(lit) == [k \in Cell |-> lit[k + 1]]

\* var exampleBoard = Board{5, 3, 0, 0, 7, ...}
exampleBoard ==
  BoardOf(<<5, 3, 0, 0, 7, 0, 0, 0, 0,
            6, 0, 0, 1, 9, 5, 0, 0, 0,
            0, 9, 8, 0, 0, 0, 0, 6, 0,
            8, 0, 0, 0, 6, 0, 0, 0, 3,
            4, 0, 0, 8, 0, 3, 0, 0, 1,
            7, 0, 0, 0, 2, 0, 0, 0, 6,
            0, 6, 0, 0, 0, 0, 2, 8, 0,
            0, 0, 0, 4, 1, 9, 0, 0, 5,
            0, 0, 0, 0, 8, 0, 0, 7, 9>>)

\* The "Solved board" of the source comment.
solvedBoard ==
  BoardOf(<<5, 3, 4, 6, 7, 8, 9, 1, 2,
            6, 7, 2, 1, 9, 5, 3, 4, 8,
            1, 9, 8, 3, 4, 2, 5, 6, 7,
            8, 5, 9, 7, 6, 1, 4, 2, 3,
            4, 2, 6, 8, 5, 3, 7, 9, 1,
            7, 1, 3, 9, 2, 4, 8, 5, 6,
            9, 6, 1, 5, 3, 7, 2, 8, 4,
            2, 8, 7, 4, 1, 9, 6, 3, 5,
            3, 4, 5, 2, 8, 6, 1, 7, 9>>)

\* ------------------------------------------------------------ the Board

\* valuePossibleAt: startOfRowIdx := idx / 9 * 9
startOfRowIdx(idx) == (idx \div RowLen) * RowLen

\* valuePossibleAt: column := idx % 9
column(idx) == idx % RowLen

\* (A variant that is wrong on purpose: the column part without its "* 3".)
topLeftIdxUnscaled(idx) ==
  ((idx \div RowLen) \div 3) * 3 * RowLen + (column(idx) \div 3)

\* valuePossibleAt: row := idx / 9; topLeftIdx := row / 3 * 3 * 9 + column / 3 * 3
topLeftIdx(idx) ==
  ((idx \div RowLen) \div 3) * 3 * RowLen + (column(idx) \div 3) * 3

\* The cell the row loop compares in iteration i: b[startOfRowIdx + i]
RowIdx(idx, i) == startOfRowIdx(idx) + i

\* The cell the column loop compares in iteration i: b[column + i * 9]
ColIdx(idx, i) == column(idx) + i * RowLen

\* The cell the block loop compares for the k-th offset: b[topLeftIdx + offset]
BlockIdx(idx, k) == topLeftIdx(idx) + blockOffsets[k]

\* Every cell the three loops of valuePossibleAt(v, idx) can read.
CellsExamined(idx) ==
  {RowIdx(idx, i) : i \in 0 .. (RowLen - 1)}
    \cup {ColIdx(idx, i) : i \in 0 .. (RowLen - 1)}
    \cup {BlockIdx(idx, k) : k \in 1 .. Len(blockOffsets)}

\* (A variant that is wrong on purpose: the loop over the column left out.)
valuePossibleAtNoColumn(b, v, idx) ==
  /\ \A i \in 0 .. (RowLen - 1) : b[RowIdx(idx, i)] # v
  /\ \A k \in 1 .. Len(blockOffsets) : b[BlockIdx(idx, k)] # v

\* func (b Board) valuePossibleAt(v, idx int) bool: three loops, each
\* returning false at the first cell equal to v; true after the last.
valuePossibleAt(b, v, idx) ==
  /\ \A i \in 0 .. (RowLen - 1) : b[RowIdx(idx, i)] # v
  /\ \A i \in 0 .. (RowLen - 1) : b[ColIdx(idx, i)] # v
  /\ \A k \in 1 .. Len(blockOffsets) : b[BlockIdx(idx, k)] # v

\* (A variant that is wrong on purpose: the loop written idx < 80, which
\* never looks at the last cell.)
RECURSIVE findNextStopsEarly(_, _)
findNextStopsEarly(b, idx) ==
  IF idx < NumCells - 1 /\ b[idx] # 0
  THEN findNextStopsEarly(b, idx + 1)
  ELSE idx

\* func (b Board) findNextFieldNotSetAlready(idx int) int; the same loop
\* opens the sequential solveInner: for idx < 81 && b[idx] != 0 { idx++ }
RECURSIVE findNextFieldNotSetAlready(_, _)
findNextFieldNotSetAlready(b, idx) ==
  IF idx < NumCells /\ b[idx] # 0
  THEN findNextFieldNotSetAlready(b, idx + 1)
  ELSE idx

\* func NewBoard() Board: make([]int, 81), every cell 0.
NewBoard == [k \in Cell |-> 0]

\* ------------------------------------------------ solveInner, step by step
\* A running solveInner is the board it mutates in place, the stack of its
\* active calls (the top is the last element) and the value the call that
\* has just returned handed to its caller. A frame holds the call's idx, the
\* loop variable i, where the call stands ("enter": at its first line,
\* "loop": at the head of the candidate loop, "call": inside the recursive
\* call of line b.solveInner(idx + 1)), and, for the properties only, the
\* board as it was when the call was entered.

\* No call has returned since the caller last looked.
NoRet == [set |-> FALSE, ok |-> FALSE, cell |-> 0, entry |-> NewBoard]

\* The call b.solveInner(idx) about to execute its first line.
Frame(b, idx) == [idx |-> idx, i |-> 0, pc |-> "enter", entry |-> b]

\* The machine at the call b.solveInner(idx).
Call(b, idx) == [board |-> b, stack |-> <<Frame(b, idx)>>, ret |-> NoRet]

Top(m) == m.stack[Len(m.stack)]

Pop(m) == SubSeq(m.stack, 1, Len(m.stack) - 1)

SetTop(m, f) == [m.stack EXCEPT ![Len(m.stack)] = f]

\* return ok, from the top call. For the properties the returned value
\* carries the call's idx (the cell it explored) and its entry board.
Return(m, b, ok) ==
  [board |-> b, stack |-> Pop(m),
   ret |-> [set |-> TRUE, ok |-> ok, cell |-> Top(m).idx,
            entry |-> Top(m).entry]]

\* The outermost call has returned.
Halted(m) == m.stack = <<>>

\* (A variant that is wrong on purpose: solveInner without the loop that
\* skips the cells set already.)
EnterNoSkip(m) ==
  IF Top(m).idx = NumCells
  THEN Return(m, m.board, TRUE)
  ELSE [m EXCEPT !.stack = SetTop(m, [Top(m) EXCEPT !.i = 1, !.pc = "loop"])]

\* The first lines of solveInner: skip the cells set already; at 81 all
\* fields are set: return true. Otherwise start the loop at i := 1.
Enter(m) ==
  LET idx == findNextFieldNotSetAlready(m.board, Top(m).idx)
  IN  IF idx = NumCells
      THEN Return(m, m.board, TRUE)
      ELSE [m EXCEPT !.stack = SetTop(m, [Top(m) EXCEPT !.idx = idx, !.i = 1,
                                                         !.pc = "loop"])]

\* One iteration of the candidate loop up to the recursive call:
\* if b.valuePossibleAt(i, idx) { b[idx] = i; b.solveInner(idx + 1) ... },
\* else i++.
Try(m) ==
  LET f == Top(m)
  IN  IF valuePossibleAt(m.board, f.i, f.idx)
      THEN LET b == [m.board EXCEPT ![f.idx] = f.i]
           IN  [board |-> b,
                stack |-> Append(SetTop(m, [f EXCEPT !.pc = "call"]),
                                 Frame(b, f.idx + 1)),
                ret |-> NoRet]
      ELSE [m EXCEPT !.stack = SetTop(m, [f EXCEPT !.i = f.i + 1])]

\* The recursive call has returned: if it returned true, return true;
\* otherwise i++ and back to the head of the loop.
Resume(m) ==
  IF m.ret.ok
  THEN Return(m, m.board, TRUE)
  ELSE [m EXCEPT !.stack = SetTop(m, [Top(m) EXCEPT !.i = Top(m).i + 1,
                                                    !.pc = "loop"]),
                 !.ret = NoRet]

\* (A variant that is wrong on purpose: return false without the reset b[idx] = 0.)
ResetForgotten(m) == Return(m, m.board, FALSE)

\* The loop is over (i < 10 is false): b[idx] = 0; return false.
Reset(m) == Return(m, [m.board EXCEPT ![Top(m).idx] = 0], FALSE)

\* Which step the machine takes next.
AtEnter(m) == ~Halted(m) /\ Top(m).pc = "enter"
AtTry(m) == ~Halted(m) /\ Top(m).pc = "loop" /\ Top(m).i < LoopEnd
AtReset(m) == ~Halted(m) /\ Top(m).pc = "loop" /\ ~(Top(m).i < LoopEnd)
AtResume(m) == ~Halted(m) /\ Top(m).pc = "call" /\ m.ret.set

\* The next step of a running solveInner.
StepInner(m) ==
  IF AtEnter(m) THEN Enter(m)
  ELSE IF AtTry(m) THEN Try(m)
  ELSE IF AtReset(m) THEN Reset(m)
  ELSE IF AtResume(m) THEN Resume(m)
  ELSE m

\* The most steps a goroutine's solveInner is followed for.
MaxSteps == 131072

\* n steps of the machine, or fewer if it halts before: the run is split in
\* two halves, so that its evaluation nests only log2(n) deep.
RECURSIVE RunInner(_, _)
RunInner(m, n) ==
  IF Halted(m) \/ n = 0 THEN m
  ELSE IF n = 1 THEN StepInner(m)
  ELSE CHOOSE r \in {RunInner(h, n - (n \div 2)) :
                        h \in {RunInner(m, n \div 2)}} : TRUE

\* ------------------------------------------------------------- the inputs

\* The cells blanked in the solved board: two rectangles of the solved board
\* whose corners hold 9 4 / 4 9 (cells 48 50 66 68) and 5 4 / 4 5 (cells
\* 57 62 66 71), so that blanking one of them leaves two completions.
HolePool == {48, 50, 57, 62, 66, 68, 71}

HoleSets == {H \in SUBSET HolePool : Cardinality(H) <= MaxHoles}

\* A cell given another value, after the blanking: <<cell, value>>. The
\* first repeats the 3 of row 0 and the last the 4 of row 8; the others are
\* a repetition or not, depending on the cells blanked. With cell 66 blanked
\* the last puts a 4 in its block and neither in its row nor in its column.
Overwrites == {<<0, 3>>, <<48, 4>>, <<71, 4>>, <<76, 4>>}

Blank(board, H) == [k \in Cell |-> IF k \in H THEN 0 ELSE board[k]]

\* The boards Solve is called on.
Inputs ==
  {Blank(solvedBoard, H) : H \in HoleSets}
    \cup {[Blank(solvedBoard, H) EXCEPT ![o[1]] = o[2]] :
            H \in HoleSets, o \in Overwrites}

\* ------------------------------------------------------------- the state

VARIABLES
  input,       \* the board Solve was called on, as it was at the call
  strategy,    \* "seq": Solve of main.go; "par": Solve with goroutines
  b,           \* the Board b Solve is called on, now
  pc,          \* where Solve stands
  opsCnt,      \* var opsCnt (sequential program)
  stack,       \* the active calls of the sequential b.solveInner
  ret,         \* what the solveInner call that just returned handed back
  idx,         \* Solve's idx: the first field not set (parallel program)
  i,           \* Solve's loop variable i (parallel program)
  tasks,       \* the goroutine launched for each i, if any
  wg,          \* the counter of the sync.WaitGroup
  resultChan,  \* the boards buffered in resultChan
  doneChan,    \* whether doneChan is closed
  watcher,     \* where the goroutine of wg.Wait(); close(doneChan) stands
  outcome,     \* what Solve printed: "none" before it has
  result,      \* the board Solve printed as the solution
  api          \* the last call a caller made on b outside Solve, if any

vars == <<input, strategy, b, pc, opsCnt, stack, ret, idx, i, tasks, wg,
          resultChan, doneChan, watcher, outcome, result, api>>

seqVars == <<opsCnt, stack, ret>>

parVars == <<idx, i, tasks, wg, resultChan, doneChan, watcher>>

\* No goroutine was launched for this i (yet).
NoTask == [pc |-> "none", copiedBoard |-> NewBoard, ok |-> FALSE,
           cell |-> 0, entry |-> NewBoard]

Values == 1 .. (LoopEnd - 1)

\* No call yet. A call of Set or Get is recorded with its x, y and v, one of
\* findNextFieldNotSetAlready with its idx as x; value is what it returned.
NoCall == [op |-> "none", x |-> 0, y |-> 0, v |-> 0, panicked |-> FALSE,
           value |-> 0, before |-> NewBoard, calls |-> 0]

InitWith(boards) ==
  /\ input \in boards
  /\ strategy \in {"seq", "par"}
  /\ api = NoCall
  /\ b = input
  /\ pc = "start"
  /\ opsCnt = 0
  /\ stack = <<>>
  /\ ret = NoRet
  /\ idx = 0
  /\ i = 0
  /\ tasks = [t \in Values |-> NoTask]
  /\ wg = 0
  /\ resultChan = <<>>
  /\ doneChan = FALSE
  /\ watcher = "none"
  /\ outcome = "none"
  /\ result = NewBoard

Init == InitWith(Inputs)

InitExample == InitWith(Inputs \cup {exampleBoard})

\* ------------------------------------------- the sequential Solve (main.go)

\* The running b.solveInner(0) of the sequential Solve.
M == [board |-> b, stack |-> stack, ret |-> ret]

SetM(m) == b' = m.board /\ stack' = m.stack /\ ret' = m.ret

\* Solve: opsCnt = 0; ...; b.solveInner(0) is called.
SeqSolve ==
  /\ strategy = "seq" /\ pc = "start"
  /\ opsCnt' = 0
  /\ SetM(Call(b, 0))
  /\ pc' = "solveInner"
  /\ UNCHANGED <<api, input, strategy, parVars, outcome, result>>

SeqEnter ==
  /\ pc = "solveInner" /\ AtEnter(M)
  /\ SetM(Enter(M))
  /\ UNCHANGED <<api, input, strategy, pc, opsCnt, parVars, outcome, result>>

\* valuePossibleAt of the sequential program starts with opsCnt++.
SeqTry ==
  /\ pc = "solveInner" /\ AtTry(M)
  /\ opsCnt' = opsCnt + 1
  /\ SetM(Try(M))
  /\ UNCHANGED <<api, input, strategy, pc, parVars, outcome, result>>

SeqResume ==
  /\ pc = "solveInner" /\ AtResume(M)
  /\ SetM(Resume(M))
  /\ UNCHANGED <<api, input, strategy, pc, opsCnt, parVars, outcome, result>>

SeqReset ==
  /\ pc = "solveInner" /\ AtReset(M)
  /\ SetM(Reset(M))
  /\ UNCHANGED <<api, input, strategy, pc, opsCnt, parVars, outcome, result>>

\* if b.solveInner(0) { "Found valid solution ...", b } else { "Could not
\* find a valid solution ..." }
SeqReport ==
  /\ pc = "solveInner" /\ Halted(M)
  /\ outcome' = IF ret.ok THEN "solved" ELSE "failed"
  /\ result' = IF ret.ok THEN b ELSE result
  /\ pc' = "returned"
  /\ UNCHANGED <<api, input, strategy, b, seqVars, parVars>>

\* --------------------------------------- the parallel Solve (goroutines)

\* idx := b.findNextFieldNotSetAlready(0); if idx == 81 { "All values in
\* this board are set already", b; return }; then the channels and the
\* WaitGroup are made and the loop starts at i := 1.
ParSolve ==
  /\ strategy = "par" /\ pc = "start"
  /\ idx' = findNextFieldNotSetAlready(b, 0)
  /\ IF idx' = NumCells
     THEN /\ pc' = "returned"
          /\ outcome' = "allset"
          /\ result' = b
          /\ i' = i
     ELSE /\ pc' = "loop"
          /\ outcome' = outcome
          /\ result' = result
          /\ i' = 1
  /\ resultChan' = <<>>
  /\ doneChan' = FALSE
  /\ wg' = 0
  /\ UNCHANGED <<api, input, strategy, b, seqVars, tasks, watcher>>

\* (A variant that is wrong on purpose: the loop launches a goroutine for every i,
\* without asking valuePossibleAt.)
ParLoopUnchecked ==
  /\ pc = "loop" /\ i < LoopEnd
  /\ tasks' = [tasks EXCEPT ![i] =
                 [NoTask EXCEPT !.pc = "go",
                                !.copiedBoard = [k \in Cell |-> b[k]]]]
  /\ wg' = wg + 1
  /\ i' = i + 1
  /\ UNCHANGED <<api, input, strategy, b, pc, seqVars, idx, resultChan, doneChan,
                 watcher, outcome, result>>

\* One iteration of the loop: if b.valuePossibleAt(i, idx) { copiedBoard :=
\* NewBoard(); copy(copiedBoard, b); wg.Add(1); go func(i, idx) ... }; i++
ParLoop ==
  /\ pc = "loop" /\ i < LoopEnd
  /\ IF valuePossibleAt(b, i, idx)
     THEN /\ tasks' = [tasks EXCEPT ![i] =
                         [NoTask EXCEPT !.pc = "go",
                                        !.copiedBoard = [k \in Cell |-> b[k]]]]
          /\ wg' = wg + 1
     ELSE UNCHANGED <<tasks, wg>>
  /\ i' = i + 1
  /\ UNCHANGED <<api, input, strategy, b, pc, seqVars, idx, resultChan, doneChan,
                 watcher, outcome, result>>

\* After the loop: go func() { wg.Wait(); close(doneChan) }(); Solve is at
\* its select.
ParWatch ==
  /\ pc = "loop" /\ ~(i < LoopEnd)
  /\ watcher' = "wait"
  /\ pc' = "select"
  /\ UNCHANGED <<api, input, strategy, b, seqVars, idx, i, tasks, wg, resultChan,
                 doneChan, outcome, result>>

\* What the goroutine holds once its solveInner, run as m, has returned:
\* ok := copiedBoard.solveInner(idx + 1).
TaskReturned(m) ==
  [pc |-> IF m.ret.ok THEN "send" ELSE "done",
   copiedBoard |-> m.board,
   ok |-> m.ret.ok,
   cell |-> m.ret.cell,
   entry |-> m.ret.entry]

\* (A variant that is wrong on purpose: the goroutine searches on a board
\* that shares its cells with the caller's b, as it would without
\* copy(copiedBoard, b).)
TaskRunOnCallerBoard(t) ==
  /\ tasks[t].pc = "go"
  /\ \E m \in {RunInner(Call([b EXCEPT ![idx] = t], idx + 1), MaxSteps)} :
       /\ Halted(m)
       /\ tasks' = [tasks EXCEPT ![t] = TaskReturned(m)]
       /\ b' = m.board
  /\ UNCHANGED <<api, input, strategy, pc, seqVars, idx, i, wg, resultChan,
                 doneChan, watcher, outcome, result>>

\* (A variant that is wrong on purpose: the goroutine takes i from the loop
\* of Solve, as a closure without the parameters i and idx would, and so
\* sets the value the loop has come to by the time it runs.)
TaskRunSharedLoopVar(t) ==
  /\ tasks[t].pc = "go"
  /\ \E m \in {RunInner(Call([tasks[t].copiedBoard EXCEPT ![idx] = i],
                               idx + 1), MaxSteps)} :
       /\ Halted(m)
       /\ tasks' = [tasks EXCEPT ![t] = TaskReturned(m)]
  /\ UNCHANGED <<api, input, strategy, b, pc, seqVars, idx, i, wg, resultChan,
                 doneChan, watcher, outcome, result>>

\* The goroutine for t up to the return of its solveInner:
\* copiedBoard[idx] = i; copiedBoard.solveInner(idx + 1). It works on its
\* own board alone, so its steps are taken at once (all of them: the run
\* ends within MaxSteps).
TaskRun(t) ==
  /\ tasks[t].pc = "go"
  /\ \E m \in {RunInner(Call([tasks[t].copiedBoard EXCEPT ![idx] = t],
                               idx + 1), MaxSteps)} :
       /\ Halted(m)
       /\ tasks' = [tasks EXCEPT ![t] = TaskReturned(m)]
  /\ UNCHANGED <<api, input, strategy, b, pc, seqVars, idx, i, wg, resultChan,
                 doneChan, watcher, outcome, result>>

\* (A variant that is wrong on purpose: a goroutine sends only once those
\* for the smaller values have ended, so that the boards arrive in the order
\* of the values.)
TaskSendInOrder(t) ==
  /\ tasks[t].pc = "send"
  /\ \A u \in Values : u < t => tasks[u].pc \in {"none", "exit"}
  /\ Len(resultChan) < ResultChanCap
  /\ resultChan' = Append(resultChan, tasks[t].copiedBoard)
  /\ tasks' = [tasks EXCEPT ![t].pc = "exit"]
  /\ UNCHANGED <<api, input, strategy, b, pc, seqVars, idx, i, wg, doneChan,
                 watcher, outcome, result>>

\* resultChan <- copiedBoard: blocks while the buffer is full.
TaskSend(t) ==
  /\ tasks[t].pc = "send"
  /\ Len(resultChan) < ResultChanCap
  /\ resultChan' = Append(resultChan, tasks[t].copiedBoard)
  /\ tasks' = [tasks EXCEPT ![t].pc = "exit"]
  /\ UNCHANGED <<api, input, strategy, b, pc, seqVars, idx, i, wg, doneChan,
                 watcher, outcome, result>>

\* (A variant that is wrong on purpose: the goroutine sends its board
\* before wg.Done(), although its search found no solution.)
TaskDoneSends(t) ==
  /\ tasks[t].pc = "done"
  /\ Len(resultChan) < ResultChanCap
  /\ resultChan' = Append(resultChan, tasks[t].copiedBoard)
  /\ wg' = wg - 1
  /\ tasks' = [tasks EXCEPT ![t].pc = "exit"]
  /\ UNCHANGED <<api, input, strategy, b, pc, seqVars, idx, i, doneChan,
                 watcher, outcome, result>>

\* (A variant that is wrong on purpose: the goroutine ends without wg.Done().)
TaskDoneForgotten(t) ==
  /\ tasks[t].pc = "done"
  /\ tasks' = [tasks EXCEPT ![t].pc = "exit"]
  /\ UNCHANGED <<api, input, strategy, b, pc, seqVars, idx, i, wg, resultChan,
                 doneChan, watcher, outcome, result>>

\* wg.Done(), only if no solution was found.
TaskDone(t) ==
  /\ tasks[t].pc = "done"
  /\ wg' = wg - 1
  /\ tasks' = [tasks EXCEPT ![t].pc = "exit"]
  /\ UNCHANGED <<api, input, strategy, b, pc, seqVars, idx, i, resultChan,
                 doneChan, watcher, outcome, result>>

\* (A variant that is wrong on purpose: the goroutine closes doneChan without
\* waiting for the counter.)
WatcherWaitSkipped ==
  /\ watcher = "wait"
  /\ watcher' = "close"
  /\ UNCHANGED <<api, input, strategy, b, pc, seqVars, idx, i, tasks, wg,
                 resultChan, doneChan, outcome, result>>

\* wg.Wait() returns when the counter is 0.
WatcherWait ==
  /\ watcher = "wait" /\ wg = 0
  /\ watcher' = "close"
  /\ UNCHANGED <<api, input, strategy, b, pc, seqVars, idx, i, tasks, wg,
                 resultChan, doneChan, outcome, result>>

\* close(doneChan)
WatcherClose ==
  /\ watcher = "close"
  /\ doneChan' = TRUE
  /\ watcher' = "exit"
  /\ UNCHANGED <<api, input, strategy, b, pc, seqVars, idx, i, tasks, wg,
                 resultChan, outcome, result>>

\* select: case result := <-resultChan: "Found valid solution", result
SelectResult ==
  /\ pc = "select" /\ resultChan # <<>>
  /\ result' = Head(resultChan)
  /\ resultChan' = Tail(resultChan)
  /\ outcome' = "solved"
  /\ pc' = "returned"
  /\ UNCHANGED <<api, input, strategy, b, seqVars, idx, i, tasks, wg, doneChan,
                 watcher>>

\* select: case <-doneChan: "Could not find a valid solution"
SelectDone ==
  /\ pc = "select" /\ doneChan
  /\ outcome' = "failed"
  /\ pc' = "returned"
  /\ UNCHANGED <<api, input, strategy, b, seqVars, idx, i, tasks, wg, resultChan,
                 doneChan, watcher, result>>

Next ==
  \/ SeqSolve
  \/ SeqEnter
  \/ SeqTry
  \/ SeqResume
  \/ SeqReset
  \/ SeqReport
  \/ ParSolve
  \/ ParLoop
  \/ ParWatch
  \/ \E t \in Values : TaskRun(t)
  \/ \E t \in Values : TaskSend(t)
  \/ \E t \in Values : TaskDone(t)
  \/ WatcherWait
  \/ WatcherClose
  \/ SelectResult
  \/ SelectDone

Spec == Init /\ [][Next]_vars

\* The same program, the example puzzle of the source among its inputs.
SpecExample == InitExample /\ [][Next]_vars

\* The Go scheduler does not idle while some goroutine can run: the caller
\* of Solve, a launched goroutine or the one waiting on the WaitGroup. (No
\* fairness between goroutines is assumed.)
Fairness == WF_vars(Next)

FairSpec == Spec /\ Fairness


\* ------------------------------------------- Set and Get (the coordinates)
\* A caller fills a board through Set and reads it through Get before it
\* has it solved; a panic ends the program.

\* The most calls of Set and Get that are followed.
MaxCalls == 1

\* The coordinates and the values the calls are made with; the coordinates:
\* by how much they go beyond 0..8 on either side.
CoordMargin == 1

Coords == (0 - CoordMargin) .. (RowLen - 1 + CoordMargin)

SetValues == {0, 9}

\* (A variant that is wrong on purpose: x and y exchanged.)
LinearIdxSwapped(x, y) == y + x * RowLen

\* idx := x + y * 9
LinearIdx(x, y) == x + y * RowLen

\* if idx < 0 || idx > 80 { panic(...) }
OutOfRange(k) == k < 0 \/ k > NumCells - 1

InitAccess ==
  /\ InitWith({NewBoard, exampleBoard, solvedBoard})
  /\ strategy = "seq"

accessVars == <<input, strategy, pc, seqVars, parVars, outcome, result>>

\* b.Set(x, y, v): panics on an index out of range, else b[idx] = v.
Set(x, y, v) ==
  /\ pc = "start" /\ ~api.panicked /\ api.calls < MaxCalls
  /\ LET k == LinearIdx(x, y)
     IN  /\ api' = [op |-> "Set", x |-> x, y |-> y, v |-> v,
                    panicked |-> OutOfRange(k), value |-> 0, before |-> b,
                    calls |-> api.calls + 1]
         /\ b' = IF OutOfRange(k) THEN b ELSE [b EXCEPT ![k] = v]
  /\ UNCHANGED accessVars

\* b.Get(x, y): panics on an index out of range, else returns b[idx].
Get(x, y) ==
  /\ pc = "start" /\ ~api.panicked /\ api.calls < MaxCalls
  /\ LET k == LinearIdx(x, y)
     IN  api' = [op |-> "Get", x |-> x, y |-> y, v |-> 0,
                 panicked |-> OutOfRange(k),
                 value |-> IF OutOfRange(k) THEN 0 ELSE b[k], before |-> b,
                 calls |-> api.calls + 1]
  /\ UNCHANGED <<b, accessVars>>

NextAccess ==
  \/ \E x \in Coords, y \in Coords, v \in SetValues : Set(x, y, v)
  \/ \E x \in Coords, y \in Coords : Get(x, y)

SpecAccess == InitAccess /\ [][NextAccess]_vars

\* -------------------------------------- findNextFieldNotSetAlready alone
\* The scan called by itself, on each input and from each index up to 81.

InitScan ==
  /\ InitWith(Inputs \cup {NewBoard, exampleBoard})
  /\ strategy = "par"

\* found := b.findNextFieldNotSetAlready(from)
Scan(from) ==
  /\ pc = "start" /\ api.op = "none"
  /\ api' = [NoCall EXCEPT !.op = "findNextFieldNotSetAlready", !.x = from,
                           !.value = findNextFieldNotSetAlready(b, from),
                           !.before = b, !.calls = 1]
  /\ UNCHANGED <<b, accessVars>>

NextScan == \E from \in 0 .. NumCells : Scan(from)

SpecScan == InitScan /\ [][NextScan]_vars

\* ------------------------------------------------- the rules of the puzzle
\* Stated from the grid, independently of the solver: cell k lies in row
\* k / 9 and column k % 9; a block is three rows by three columns.

RowOf(k) == k \div 9

ColOf(k) == k % 9

BlockOf(k) == <<RowOf(k) \div 3, ColOf(k) \div 3>>

\* The 27 units: 9 rows, 9 columns, 9 blocks.
Units ==
  {{k \in Cell : RowOf(k) = r} : r \in 0 .. 8}
    \cup {{k \in Cell : ColOf(k) = c} : c \in 0 .. 8}
    \cup {{k \in Cell : BlockOf(k) = <<br, bc>>} : br \in 0 .. 2, bc \in 0 .. 2}

\* The cells sharing a unit with k.
Peers(k) ==
  {j \in Cell : RowOf(j) = RowOf(k) \/ ColOf(j) = ColOf(k)
                  \/ BlockOf(j) = BlockOf(k)}

\* The values held by the cells sharing a unit with k.
PeerValues(board, k) == {board[j] : j \in Peers(k)}

\* No cell is 0 and every unit holds each of 1..9 (so exactly once).
IsSolved(board) == \A u \in Units : {board[k] : k \in u} = 1 .. 9

\* No nonzero value twice in a unit.
Consistent(board) ==
  \A u \in Units : \A j, k \in u :
    (j # k /\ board[j] # 0) => board[j] # board[k]

Empties(board) == {k \in Cell : board[k] = 0}

\* Every way to fill the given cells with values their peers do not hold.
RECURSIVE Fill(_, _)
Fill(board, cells) ==
  IF cells = {} THEN {board}
  ELSE LET k == CHOOSE c \in cells : TRUE
       IN  UNION {Fill([board EXCEPT ![k] = v], cells \ {k}) :
                    v \in (1 .. 9) \ PeerValues(board, k)}

\* The valid completions of a board: the solved boards that agree with it
\* on its nonzero cells.
Completions(board) == {s \in Fill(board, Empties(board)) : IsSolved(s)}

\* The board the sequential b.solveInner(0) leaves when run on a board.
SequentialResult(board) == RunInner(Call(board, 0), MaxSteps).board

\* The first empty cell of the board exists and every value 1..9 is held
\* by a cell sharing a unit with it.
ZeroCandidateRoot(board) ==
  /\ Empties(board) # {}
  /\ LET k == CHOOSE c \in Empties(board) : \A j \in Empties(board) : c <= j
     IN  (1 .. 9) \subseteq PeerValues(board, k)

\* Solve has printed its verdict.
Returned == pc = "returned"

\* The goroutines launched so far.
Launched == {t \in Values : tasks[t].pc # "none"}

\* -------------------------------------------------------------- the claims

\* C1: any board a strategy reports as solved has no empty cell and every
\* row, column and block holds each of 1..9 exactly once, whatever board was
\* given as input. (The code breaks this on an input with a repeated value.)
C1_ReportedSolvedIsValid == outcome = "solved" => IsSolved(result)

\* C2: for an input with no value repeated in a unit, failure is reported
\* only if the input has no valid completion; when it has one, Solve, once
\* it has returned, has reported success.
C2_FailureOnlyIfNoCompletion ==
  (Consistent(input) /\ Returned) =>
    /\ outcome = "failed" => Completions(input) = {}
    /\ Completions(input) # {} => outcome \in {"solved", "allset"}

\* C2's case: the parallel Solve reported failure on a consistent input after
\* a goroutine searched and gave up.
C2_Witness ==
  /\ strategy = "par" /\ Consistent(input) /\ outcome = "failed"
  /\ \E t \in Values : tasks[t].pc = "exit" /\ ~tasks[t].ok

\* C3: on a board with no valid completion, for instance one with a value
\* twice in a row, a Solve that has returned has reported failure, not a
\* solution. (The code breaks this on an input with a repeated value.)
C3_NoCompletionReportsFailure ==
  (Returned /\ Empties(input) # {} /\ Completions(input) = {}) =>
    outcome = "failed"

\* C4: in the parallel Solve a board sent to resultChan and a closed
\* doneChan exclude each other; doneChan is closed only after every launched
\* goroutine came back without a solution and called wg.Done; a goroutine
\* with a solution never calls wg.Done (the counter stays above 0); failure
\* is reported only when no goroutine solved.
C4_SuccessAndFailureExclusive ==
  strategy = "par" =>
    /\ ~(doneChan /\ \E t \in Values : tasks[t].pc = "exit" /\ tasks[t].ok)
    /\ (doneChan \/ watcher \in {"close", "exit"}) =>
         /\ ~(i < LoopEnd)
         /\ \A t \in Launched : tasks[t].pc = "exit" /\ ~tasks[t].ok
    /\ wg = Cardinality({t \in Launched : tasks[t].pc # "exit" \/ tasks[t].ok})
    /\ outcome = "failed" => \A t \in Launched : ~tasks[t].ok

\* C4's case: doneChan was closed after two goroutines gave up.
C4_Witness ==
  /\ doneChan
  /\ Cardinality({t \in Values : tasks[t].pc = "exit" /\ ~tasks[t].ok}) >= 2

\* C5: both strategies terminate: when the scheduler does not idle, Solve
\* returns, every solveInner call returns (the sequential call stack empties
\* and no goroutine stays inside its call; each call is made for a cell
\* beyond its caller's, from inside the caller's loop over 1..9), and the
\* verdict, once printed, is never printed again or changed (the select
\* fires once).
C5_Terminates ==
  /\ <>Returned
  /\ <>[](stack = <<>> /\ \A t \in Values : tasks[t].pc # "go")
  /\ [](\A j \in 1 .. (Len(stack) - 1) :
          stack[j].idx < stack[j + 1].idx /\ stack[j].i < LoopEnd)
  /\ [][outcome # "none" => (outcome' = outcome /\ result' = result)]_vars

\* C5's case: the parallel Solve has returned with a solution and each of
\* its two goroutines has run to its end.
C5_Witness ==
  /\ strategy = "par" /\ Returned /\ outcome = "solved"
  /\ Cardinality(Launched) >= 2
  /\ \A t \in Launched : tasks[t].pc = "exit"

\* C6: on an input with exactly one valid completion, the board the parallel
\* Solve reports is the board the sequential solveInner(0) produces on that
\* input, in every interleaving, and it is that completion (so a solved
\* board); the sequential Solve reports the same.
C6_UniqueSolutionSameResult ==
  (Returned /\ Cardinality(Completions(input)) = 1) =>
    /\ outcome \in {"solved", "allset"}
    /\ result = SequentialResult(input)
    /\ result \in Completions(input)
    /\ IsSolved(result)

\* C6's case: the parallel Solve reported the one completion although one of
\* its two goroutines found none.
C6_Witness ==
  /\ strategy = "par" /\ outcome = "solved"
  /\ Cardinality(Completions(input)) = 1
  /\ \E t \in Values : tasks[t].pc = "exit" /\ ~tasks[t].ok

\* C7: the example puzzle is solved, by the sequential Solve and by the
\* parallel Solve in every interleaving, to the solved board of the source
\* comment.
C7_ExampleSolved ==
  (input = exampleBoard /\ Returned) =>
    (outcome = "solved" /\ result = solvedBoard)

\* C7's case: the parallel Solve has reported a solution of the example
\* puzzle, for which it launched three goroutines.
C7_Witness ==
  /\ input = exampleBoard /\ strategy = "par" /\ outcome = "solved"
  /\ Cardinality(Launched) = 3

\* The boards of the program in a state: Solve's own and the goroutines'.
BoardsNow == {b} \cup {tasks[t].copiedBoard : t \in Launched}

\* C8: for every board, empty cell k and value v, valuePossibleAt(v, k) is
\* false exactly when v is held by a cell in the row, column or block of k;
\* it reads only cells 0..80; and a call that returns false leaves the board
\* as it was.
C8_ValuePossibleAt ==
  /\ [](\A board \in BoardsNow : \A k \in Empties(board) :
          /\ CellsExamined(k) \subseteq Cell
          /\ \A v \in 1 .. 9 :
               valuePossibleAt(board, v, k) <=> v \notin PeerValues(board, k))
  /\ [][(pc = "solveInner" /\ AtTry(M)
           /\ ~valuePossibleAt(b, Top(M).i, Top(M).idx)) => b' = b]_vars

\* C8's case: the sequential solveInner is about to ask valuePossibleAt
\* for a value that is held only by the block of the cell (neither by its
\* row nor by its column), at a cell where another value is held only by the
\* column.
C8_Witness ==
  /\ pc = "solveInner" /\ AtTry(M)
  /\ LET k == Top(M).idx
         v == Top(M).i
         inRow == {b[j] : j \in {c \in Cell : RowOf(c) = RowOf(k)}}
         inCol == {b[j] : j \in {c \in Cell : ColOf(c) = ColOf(k)}}
         inBlock == {b[j] : j \in {c \in Cell : BlockOf(c) = BlockOf(k)}}
     IN  /\ v \in inBlock \ (inRow \cup inCol)
         /\ ~valuePossibleAt(b, v, k)
         /\ (1 .. 9) \cap (inCol \ (inRow \cup inBlock)) # {}

\* C9: when a solveInner call returns false, the cell it explored is 0 and
\* the board is, cell for cell, the board the call was entered with: in the
\* sequential Solve at every return, nested ones included, and for the call
\* of each goroutine.
C9_NoResidue ==
  /\ (ret.set /\ ~ret.ok) => (b = ret.entry /\ b[ret.cell] = 0)
  /\ \A t \in Launched :
       (tasks[t].pc \in {"done", "exit"} /\ ~tasks[t].ok) =>
         /\ tasks[t].copiedBoard = tasks[t].entry
         /\ tasks[t].copiedBoard[tasks[t].cell] = 0

\* C9's case: a nested call of the sequential solveInner has just returned
\* false to a caller that had set its own cell.
C9_Witness ==
  /\ strategy = "seq" /\ ret.set /\ ~ret.ok
  /\ Len(stack) >= 2
  /\ ret.entry # input

\* C10: when no value is legal at the first empty cell, the parallel Solve
\* launches no goroutine, nothing is sent on resultChan, the counter is 0 so
\* that wg.Wait() does not block, and Solve comes to report failure.
C10_ZeroCandidateRoot ==
  /\ []((strategy = "par" /\ ZeroCandidateRoot(input)) =>
          /\ Launched = {}
          /\ resultChan = <<>>
          /\ wg = 0
          /\ outcome \in {"none", "failed"})
  /\ (strategy = "par" /\ ZeroCandidateRoot(input))
       ~> (doneChan /\ outcome = "failed")

\* C10's case: failure reported on an input whose first empty cell has no
\* legal value, which is otherwise consistent.
C10_Witness ==
  /\ strategy = "par" /\ ZeroCandidateRoot(input) /\ Consistent(input)
  /\ outcome = "failed" /\ watcher = "exit"

\* C11: Set(x, y, v) and Get(x, y) panic exactly when x + y * 9 is outside
\* 0..80, and then the board is as it was; otherwise Set makes cell
\* x + y * 9 hold v and changes no other cell, and Get returns the value of
\* cell x + y * 9 and changes no cell.
C11_SetGetBoundsChecked ==
  api.op \in {"Set", "Get"} =>
    LET k == api.x + api.y * 9
    IN  /\ api.panicked <=> k \notin 0 .. 80
        /\ api.panicked => b = api.before
        /\ (api.op = "Set" /\ ~api.panicked) =>
             /\ b[k] = api.v
             /\ \A j \in Cell \ {k} : b[j] = api.before[j]
        /\ (api.op = "Get" /\ ~api.panicked) =>
             /\ api.value = api.before[k]
             /\ b = api.before

\* C11's case: Set was called with a column in 0..8 and the row 9, one past
\* the last, on a board with cells set, and has panicked.
C11_Witness ==
  /\ api.op = "Set" /\ api.panicked
  /\ api.x \in 0 .. 8 /\ api.y = 9 /\ api.v = 9
  /\ api.before = exampleBoard

\* C12: findNextFieldNotSetAlready(from) returns the least index from
\* `from` on that holds 0, and 81 when there is none, and leaves the board
\* as it was; on a board with every cell set it returns 81 from any index.
C12_FirstEmptyCell ==
  api.op = "findNextFieldNotSetAlready" =>
    /\ b = api.before
    /\ IF \A k \in Empties(b) : k < api.x
       THEN api.value = 81
       ELSE /\ api.value \in Empties(b) /\ api.value >= api.x
            /\ \A k \in Empties(b) : k >= api.x => api.value <= k

\* C12's case: called from cell 40 on the solved board, where every cell is
\* set, it has returned 81.
C12_Witness ==
  /\ api.op = "findNextFieldNotSetAlready"
  /\ b = solvedBoard /\ api.x = 40 /\ api.value = 81

\* C13: if the input has no nonzero value twice in a row, column or block,
\* neither has the board of the sequential search in any state (after each
\* b[idx] = i, also one that replaces a candidate that failed, and after
\* each b[idx] = 0), nor the board a goroutine's search hands back.
C13_SearchKeepsConsistent ==
  Consistent(input) =>
    /\ Consistent(b)
    /\ \A t \in Launched : Consistent(tasks[t].copiedBoard)

\* C13's case: the sequential search has replaced a candidate that failed at
\* the first empty cell of a consistent input by a later one and searches on
\* below it.
C13_Witness ==
  /\ strategy = "seq" /\ Consistent(input)
  /\ pc = "solveInner" /\ Len(stack) >= 2
  /\ stack[1].pc = "call"
  /\ \E v \in 1 .. 9 :
       v < b[stack[1].idx] /\ valuePossibleAt(input, v, stack[1].idx)

\* C14: in the parallel Solve the board Solve was called on is never
\* written (it is the input in every state, also after Solve has returned),
\* and no step writes the boards of two goroutines: a step that changes the
\* board of one leaves every other goroutine's board as it was.
C14_BoardIsolation ==
  /\ [](strategy = "par" => b = input)
  /\ [][strategy = "par" =>
          /\ b' = b
          /\ \A t, u \in Values :
               (t # u /\ tasks'[t].copiedBoard # tasks[t].copiedBoard) =>
                 tasks'[u].copiedBoard = tasks[u].copiedBoard]_vars

\* C14's case: the parallel Solve has returned, two goroutines have
\* searched to their end, each on a board that differs from the other's and
\* from the input.
C14_Witness ==
  /\ strategy = "par" /\ Returned
  /\ Cardinality(Launched) >= 2
  /\ \A t \in Launched : tasks[t].pc = "exit" /\ tasks[t].copiedBoard # input
  /\ \A t, u \in Launched : t # u => tasks[t].copiedBoard # tasks[u].copiedBoard

\* The goroutines that have sent their board on resultChan.
Senders == {t \in Values : tasks[t].pc = "exit" /\ tasks[t].ok}

\* C15, as the specification states it: over the whole execution of the
\* parallel Solve at most one board is ever sent on resultChan (here for
\* the inputs without a repeated value alone).
C15_AtMostOneBoardSent == Consistent(input) => Cardinality(Senders) <= 1

\* C15, amended: each goroutine whose search returned true sends its board
\* on resultChan once and no other goroutine sends, so that the boards sent
\* are as many as those goroutines (at most the goroutines launched, and at
\* most 9, the capacity); Solve receives at most one of them, the others
\* stay in the buffer.
C15_OneBoardPerSolvingTask ==
  strategy = "par" =>
    LET received == IF outcome = "solved" THEN 1 ELSE 0
    IN  /\ Len(resultChan) + received = Cardinality(Senders)
        /\ Senders \subseteq Launched
        /\ Cardinality(Senders) <= ResultChanCap
        /\ \A j \in 1 .. Len(resultChan) :
             \E t \in Senders : resultChan[j] = tasks[t].copiedBoard
        /\ outcome = "solved" =>
             \E t \in Senders : result = tasks[t].copiedBoard

\* C15's case: on an input without a repeated value two goroutines have
\* each sent a board; Solve has received one, the other is still in
\* resultChan.
C15_Witness ==
  /\ Consistent(input) /\ outcome = "solved"
  /\ Len(resultChan) = 1
  /\ Cardinality(Senders) = 2
  /\ resultChan[1] # result

\* C16: no goroutine of the parallel Solve stays suspended: a send on
\* resultChan finds room in the buffer in every state, also after Solve has
\* returned, as no more than 9 goroutines are launched; every goroutine
\* launched comes to its end; and each reports one outcome, a board sent or
\* a wg.Done(), never both and never neither.
C16_TasksNeverSuspend ==
  /\ [](/\ Cardinality(Launched) <= ResultChanCap
        /\ \A t \in Values :
             tasks[t].pc = "send" => Len(resultChan) < ResultChanCap)
  /\ <>[](\A t \in Values : tasks[t].pc \in {"none", "exit"})
  /\ [](strategy = "par" =>
          LET ended == {t \in Values : tasks[t].pc = "exit"}
              sent == Len(resultChan) + (IF outcome = "solved" THEN 1 ELSE 0)
              done == Cardinality({t \in Values : tasks[t].pc # "none"}) - wg
          IN  /\ sent = Cardinality({t \in ended : tasks[t].ok})
              /\ done = Cardinality({t \in ended : ~tasks[t].ok})
              /\ sent + done = Cardinality(ended))

\* C16's case: Solve has returned with the board of one goroutine while
\* another, whose search has found a solution too, is about to send.
C16_Witness ==
  /\ Returned /\ outcome = "solved"
  /\ \E t \in Values : tasks[t].pc = "send"

\* C17: the parallel Solve launches one goroutine for each value of 1..9
\* that no cell sharing a unit with the first empty cell of the input holds,
\* and no other (none before the loop is over that is not one of these, all
\* of them once it is over); the board a goroutine searches from is the
\* input with its value at that cell, and its search goes on from the next
\* cell; no goroutine is launched but by the loop of Solve.
C17_FanOut ==
  /\ []((strategy = "par" /\ Empties(input) # {}) =>
          \A k \in {c \in Empties(input) : \A j \in Empties(input) : c <= j} :
            LET legal == {v \in 1 .. 9 : v \notin PeerValues(input, k)}
            IN  /\ Launched \subseteq legal
                /\ pc \in {"select", "returned"} => Launched = legal
                /\ \A t \in Launched :
                     IF tasks[t].pc = "go"
                     THEN tasks[t].copiedBoard = input
                     ELSE /\ tasks[t].entry = [input EXCEPT ![k] = t]
                          /\ tasks[t].cell > k)
  /\ [][Launched' # Launched =>
          (pc = "loop" /\ Cardinality(Launched') = Cardinality(Launched) + 1)]_vars

\* C17's case: the loop of Solve is over, it has launched two goroutines and
\* none for the other values, and both have searched to their end.
C17_Witness ==
  /\ strategy = "par" /\ pc \in {"select", "returned"}
  /\ Cardinality(Launched) = 2
  /\ \A t \in Launched : tasks[t].pc = "exit"

\* C18: which board the parallel Solve reports is left to the scheduling:
\* whenever resultChan is empty, each goroutine that has found a solution
\* can be the one whose board comes first, whatever its value and whatever
\* the other goroutines are at; Solve can take the first board as soon as
\* there is one, also while goroutines are still searching, and takes that
\* board; what arrives after Solve has returned changes nothing of what it
\* reported.
C18_ReportedBoardIsScheduled ==
  /\ [](\A t \in Values :
          (tasks[t].pc = "send" /\ resultChan = <<>>) =>
            ENABLED (TaskSend(t) /\ resultChan' = <<tasks[t].copiedBoard>>))
  /\ []((pc = "select" /\ resultChan # <<>>) =>
          ENABLED (SelectResult /\ result' = Head(resultChan)
                     /\ pc' = "returned"))
  /\ [][(strategy = "par" /\ outcome = "none" /\ outcome' = "solved") =>
          (resultChan # <<>> /\ result' = Head(resultChan))]_vars
  /\ [][Returned => (outcome' = outcome /\ result' = result)]_vars

\* C18's case: on an input without a repeated value two goroutines have
\* found different solutions and neither has sent yet, while Solve waits at
\* its select: either can be first.
C18_Witness ==
  /\ Consistent(input) /\ pc = "select" /\ resultChan = <<>>
  /\ \E t, u \in Values :
       /\ t < u /\ tasks[t].pc = "send" /\ tasks[u].pc = "send"
       /\ tasks[t].copiedBoard # tasks[u].copiedBoard
       /\ IsSolved(tasks[t].copiedBoard) /\ IsSolved(tasks[u].copiedBoard)

\* C19: on an input with no empty cell the parallel Solve returns at its
\* first step: no goroutine is launched, nothing is sent on resultChan,
\* doneChan is not closed, nobody waits on the WaitGroup, and the board is as
\* it was; the sequential solveInner(0) returns true without a call of
\* valuePossibleAt (opsCnt stays 0), without a nested call and without
\* writing a cell.
C19_NoEmptyCell ==
  Empties(input) = {} =>
    /\ b = input
    /\ strategy = "par" =>
         /\ Launched = {} /\ resultChan = <<>> /\ ~doneChan
         /\ watcher = "none" /\ wg = 0
         /\ pc # "start" =>
              (pc = "returned" /\ outcome = "allset" /\ result = input)
    /\ strategy = "seq" =>
         /\ opsCnt = 0 /\ Len(stack) <= 1
         /\ ret.set => ret.ok
         /\ Returned => (outcome = "solved" /\ result = input)

\* C19's case: the parallel Solve has returned on the solved board.
C19_Witness ==
  /\ strategy = "par" /\ input = solvedBoard
  /\ Returned /\ outcome = "allset"

\* C20: the cells given in the input are never altered: in every state of
\* either strategy each cell that is nonzero in the input holds its input
\* value in the board Solve works on, in the board of every goroutine, in
\* every board sent and in the board reported.
C20_GivenCellsKept ==
  \A board \in BoardsNow \cup {resultChan[j] : j \in 1 .. Len(resultChan)}
                \cup (IF outcome \in {"solved", "allset"} THEN {result} ELSE {}) :
    \A k \in Cell : input[k] # 0 => board[k] = input[k]

\* C20's case: a call of the sequential solveInner has returned false (its
\* cell is reset) at a cell beyond given cells that lie after the first
\* empty cell.
C20_Witness ==
  /\ strategy = "seq" /\ pc = "solveInner" /\ ret.set /\ ~ret.ok
  /\ Len(stack) >= 1
  /\ \E k \in Cell : input[k] # 0 /\ stack[1].idx < k /\ k < ret.cell

=============================================================================
